---- MODULE Spec2Model ----
(***************************************************************************)
(* Model of the shorty URL shortener (src/src/lib.rs, src/src/db/urls.rs). *)
(*                                                                         *)
(* The store is the MongoDB collection "urls": a sequence of documents in  *)
(* insertion order, with an optional unique index on short_id.  Callers    *)
(* run create_url and get_url; every backend round trip (connection,       *)
(* find_one, insert_one, update_one) is one atomic step, so calls of       *)
(* different callers interleave between round trips.  Any round trip may   *)
(* fail with a backend error.                                              *)
(*                                                                         *)
(* Option<T> is a sequence: <<>> is None and <<x>> is Some(x).             *)
(* A u32 is a pair of 16 bit limbs [hi, lo] standing for hi * 2^16 + lo,    *)
(* since 2^32 - 1 is beyond the integers TLC computes with.                *)
(* The created_at / updated_at timestamps are left out of the documents.   *)
(***************************************************************************)
EXTENDS Integers, Sequences, FiniteSets, TLC

\* ------------------------------------------------------------------ bounds
MaxCalls == 3
MaxInit == 1

Procs == {"p1", "p2"}
URLs == {"https://a.example", "https://b.example"}
OldUrl == "https://old.example"
Ids == {"X", "Y"}

\* ------------------------------------------------------------------ Option
None == <<>>
Some(x) == <<x>>
IsSome(o) == o # <<>>
Unwrap(o) == o[1]

\* ------------------------------------------------------------------ u32
Limb == 65536

U32(hi, lo) == [hi |-> hi, lo |-> lo]
U32Zero == U32(0, 0)
U32Max == U32(Limb - 1, Limb - 1)

\* n + 1 on unbounded naturals written in limbs (hi is not reduced)
Succ(n) == IF n.lo = Limb - 1 THEN U32(n.hi + 1, 0) ELSE U32(n.hi, n.lo + 1)

Leq(a, b) == a.hi < b.hi \/ (a.hi = b.hi /\ a.lo <= b.lo)

\* v + 1 on u32 as a build without overflow checks computes it (wrapping)
AddOne(v) == LET s == Succ(v) IN U32(s.hi % Limb, s.lo)

\* ------------------------------------------------------------------ documents
UrlModel(short_id, full_url, view_count) ==
    [short_id |-> short_id, full_url |-> full_url, view_count |-> view_count]

UrlModelChangeset(short_id, full_url, view_count) ==
    [short_id |-> short_id, full_url |-> full_url, view_count |-> view_count]

ChangesetFields == {"short_id", "full_url", "view_count"}

\* (variant: None fields are written as null instead of being skipped)
UpdateModifications_nulls(changeset) ==
    [f \in ChangesetFields |->
        IF IsSome(changeset[f]) THEN Unwrap(changeset[f]) ELSE "null"]

\* the $set document of an update: the fields of the changeset that are Some
UpdateModifications(changeset) ==
    [f \in {g \in ChangesetFields : IsSome(changeset[g])} |-> Unwrap(changeset[f])]

\* ------------------------------------------------------------------ backend
Matches(d, short_id) == {i \in 1..Len(d) : d[i].short_id = short_id}

First(S) == CHOOSE i \in S : \A j \in S : i <= j

\* find_one: the position of the first matching document, 0 when none
find_one(d, short_id) ==
    IF Matches(d, short_id) = {} THEN 0 ELSE First(Matches(d, short_id))

\* (variant: the unique index is not consulted)
insert_one_unchecked(d, unique, m, fault) ==
    IF fault THEN [res |-> "BackendError", db |-> d]
    ELSE [res |-> "Ok", db |-> Append(d, m)]

\* insert_one: refused with a duplicate key error under the unique index
insert_one(d, unique, m, fault) ==
    IF fault THEN [res |-> "BackendError", db |-> d]
    ELSE IF unique /\ Matches(d, m.short_id) # {}
         THEN [res |-> "DuplicateKey", db |-> d]
         ELSE [res |-> "Ok", db |-> Append(d, m)]

\* (variant: view_count is incremented in the store, as $inc would)
update_one_inc(d, unique, short_id, set, fault) ==
    LET i == find_one(d, short_id)
        doc == [f \in DOMAIN d[i] |->
                  IF f \notin DOMAIN set THEN d[i][f]
                  ELSE IF f = "view_count" THEN AddOne(d[i][f]) ELSE set[f]]
    IN  IF fault THEN [res |-> "BackendError", db |-> d, matched |-> FALSE]
        ELSE IF i = 0 THEN [res |-> "Ok", db |-> d, matched |-> FALSE]
        ELSE [res |-> "Ok", db |-> [d EXCEPT ![i] = doc], matched |-> TRUE]

\* update_one: $set on the first matching document; matching none is Ok
\* (matched is the matched_count of the answer, which the caller drops)
update_one(d, unique, short_id, set, fault) ==
    LET i == find_one(d, short_id)
        doc == [f \in DOMAIN d[i] |-> IF f \in DOMAIN set THEN set[f] ELSE d[i][f]]
    IN  IF fault THEN [res |-> "BackendError", db |-> d, matched |-> FALSE]
        ELSE IF i = 0 THEN [res |-> "Ok", db |-> d, matched |-> FALSE]
        ELSE IF unique /\ (Matches(d, doc.short_id) \ {i}) # {}
             THEN [res |-> "DuplicateKey", db |-> d, matched |-> TRUE]
             ELSE [res |-> "Ok", db |-> [d EXCEPT ![i] = doc], matched |-> TRUE]

\* ------------------------------------------------------------------ Url
Url(model, changeset, is_fetched_from_db) ==
    [model |-> model, changeset |-> changeset,
     is_fetched_from_db |-> is_fetched_from_db]

new(short_id, full_url, view_count) ==
    Url(UrlModel(short_id, full_url, view_count), None, FALSE)

from_model(model) == Url(model, None, TRUE)

get_short_id(url) == url.model.short_id

\* (variant: the accessor reads the wrong field)
get_full_url_short(url) == url.model.short_id

get_full_url(url) == url.model.full_url

\* (variant: a pending view_count is incremented again)
increment_view_count_stacking(url) ==
    LET base == IF IsSome(url.changeset) /\ IsSome(Unwrap(url.changeset).view_count)
                THEN Unwrap(Unwrap(url.changeset).view_count)
                ELSE url.model.view_count
    IN  [url EXCEPT !.changeset =
            Some(UrlModelChangeset(None, None, Some(AddOne(base))))]

increment_view_count(url) ==
    [url EXCEPT !.changeset =
        Some(UrlModelChangeset(None, None, Some(AddOne(url.model.view_count))))]

\* (variant: the pending changeset is replaced, not merged into)
update_short_id_replace(url, new_id) ==
    [url EXCEPT !.changeset = Some(UrlModelChangeset(Some(new_id), None, None))]

update_short_id(url, new_id) ==
    IF IsSome(url.changeset)
    THEN [url EXCEPT !.changeset =
            Some(UrlModelChangeset(Some(new_id),
                                   Unwrap(url.changeset).full_url,
                                   Unwrap(url.changeset).view_count))]
    ELSE [url EXCEPT !.changeset =
            Some(UrlModelChangeset(Some(new_id), None, None))]

\* the changeset is taken out of the Url before the update is sent
_save_from_changeset(url, d, unique, fault) ==
    LET r == update_one(d, unique, url.model.short_id,
                        UpdateModifications(Unwrap(url.changeset)), fault)
    IN  [res |-> r.res, db |-> r.db, url |-> [url EXCEPT !.changeset = None],
         via |-> "update_one", matched |-> r.matched]

_save_new_url(url, d, unique, fault) ==
    IF ~url.is_fetched_from_db
    THEN LET r == insert_one(d, unique, url.model, fault)
         IN  [res |-> r.res, db |-> r.db, url |-> url,
              via |-> "insert_one", matched |-> FALSE]
    ELSE [res |-> "Ok", db |-> d, url |-> url, via |-> "none", matched |-> FALSE]

\* (variant: every save writes the whole record)
save_whole(url, d, unique, fault) ==
    LET r == insert_one(d, unique, url.model, fault)
    IN  [res |-> r.res, db |-> r.db, url |-> url,
         via |-> "insert_one", matched |-> FALSE]

save(url, d, unique, fault) ==
    IF IsSome(url.changeset)
    THEN _save_from_changeset(url, d, unique, fault)
    ELSE _save_new_url(url, d, unique, fault)

\* fetch_url: Err, Ok(None) or Ok(Some(Url))
fetch_url(d, short_id, fault) ==
    IF fault THEN <<"Err">>
    ELSE IF find_one(d, short_id) = 0 THEN <<"Ok", None>>
    ELSE <<"Ok", Some(from_model(d[find_one(d, short_id)]))>>

\* ------------------------------------------------------------------ service
SAVE_RETRY_COUNT == 2

ErrUniqueId == <<"Err", "could not generate a unique ID">>
ErrFetch == <<"Err", "error while getting url object">>
ErrViewCount == <<"Err", "could not update URL view count">>
Running == <<>>
Panic == <<"Panic">>

\* generate_id(full_url): any identifier of the alphabet, a fresh draw per call
generate_id(full_url) == Ids

\* (variant: the loop goes on until a save succeeds)
create_url_iteration_unbounded(url, d, unique, it, new_id, fault) ==
    LET s == save(url, d, unique, fault)
    IN  IF s.res = "Ok"
        THEN [ret |-> <<"Ok", get_short_id(s.url)>>, url |-> s.url,
              db |-> s.db, res |-> s.res, via |-> s.via, it |-> it]
        ELSE [ret |-> Running, url |-> update_short_id(s.url, new_id),
              db |-> s.db, res |-> s.res, via |-> s.via, it |-> it + 1]

\* one pass of the body of `for _ in 1..SAVE_RETRY_COUNT`, with the loop test
\* that follows it; ret is Running while the loop goes on
create_url_iteration(url, d, unique, it, new_id, fault) ==
    LET s == save(url, d, unique, fault)
    IN  IF s.res = "Ok"
        THEN [ret |-> <<"Ok", get_short_id(s.url)>>, url |-> s.url,
              db |-> s.db, res |-> s.res, via |-> s.via, it |-> it]
        ELSE [ret |-> IF it + 1 < SAVE_RETRY_COUNT THEN Running ELSE ErrUniqueId,
              url |-> update_short_id(s.url, new_id),
              db |-> s.db, res |-> s.res, via |-> s.via, it |-> it + 1]

\* (variant: a missing short_id is reported as an error)
get_url_fetch_strict(d, short_id, fault, overflow_checks) ==
    LET i == find_one(d, short_id)
    IN  IF fault \/ i = 0 THEN [ret |-> ErrFetch, url |-> None, at |-> 0]
        ELSE IF overflow_checks /\ d[i].view_count = U32Max
             THEN [ret |-> Panic, url |-> None, at |-> i]
        ELSE [ret |-> Running,
              url |-> Some(increment_view_count(from_model(d[i]))), at |-> i]

\* get_url up to the save: fetch_url, then increment_view_count, whose
\* view_count + 1 panics at u32::MAX in a build with overflow checks
get_url_fetch(d, short_id, fault, overflow_checks) ==
    LET i == find_one(d, short_id)
    IN  IF fault THEN [ret |-> ErrFetch, url |-> None, at |-> 0]
        ELSE IF i = 0 THEN [ret |-> <<"OkNone">>, url |-> None, at |-> 0]
        ELSE IF overflow_checks /\ d[i].view_count = U32Max
             THEN [ret |-> Panic, url |-> None, at |-> i]
        ELSE [ret |-> Running,
              url |-> Some(increment_view_count(from_model(d[i]))), at |-> i]

\* (variant: the result of the save is not looked at)
get_url_save_unchecked(url, d, unique, fault) ==
    LET s == save(url, d, unique, fault)
    IN  [ret |-> <<"OkSome", get_full_url(s.url)>>, url |-> s.url,
         db |-> s.db, res |-> s.res, via |-> s.via]

\* get_url from the save on
get_url_save(url, d, unique, fault) ==
    LET s == save(url, d, unique, fault)
    IN  IF s.res # "Ok"
        THEN [ret |-> ErrViewCount, url |-> s.url, db |-> s.db, res |-> s.res,
              via |-> s.via]
        ELSE [ret |-> <<"OkSome", get_full_url(s.url)>>, url |-> s.url,
              db |-> s.db, res |-> s.res, via |-> s.via]

\* ------------------------------------------------------------------ state
VARIABLES
    db,         \* the documents of the collection, in insertion order
    index,      \* TRUE once the unique index on short_id exists
    pc,         \* per caller: "idle", "create_save", "get_save", "panicked"
    op,         \* per caller: the call it runs or ran last
    arg,        \* per caller: the argument of that call
    url_obj,    \* per caller: Option<Url>, the aggregate of the running call,
                \* dropped when the call returns
    iter,       \* per caller: the loop variable of create_url
    result,     \* per caller: what the last call returned, <<>> before
    calls,      \* history: calls started so far
    issued,     \* history: the <<short_id, full_url>> pairs create_url returned
    obs,        \* history, per caller: what its current call has seen:
                \*   expected  the URLs create_url had returned arg for, at the start
                \*   saves     the outcomes of its saves, in order
                \*   ops       the backend operation each of its saves issued
                \*   generated the number of generate_id calls
                \*   at, read  the document find_one returned and its view_count
                \*   rivals    the callers whose create_url ran at the same time
                \*             with the same candidate short_id
                \*   free      the candidate short_id was not stored at the start
                \*   faulted   a round trip failed with a backend error
    lengthened, \* history, per document: get_url calls that returned its URL
    overlapped, \* history, per document: two get_url calls on it overlapped
    cli,        \* the command line process: where main is, its arguments,
                \* what it printed and its exit code
    agg         \* one Url driven through its own methods, with the history
                \* of the calls made on it

vars == <<db, index, pc, op, arg, url_obj, iter, result, calls, issued, obs,
          lengthened, overlapped, cli, agg>>

\* the command line process and the lone Url while they are not run
NoCli == [pc |-> "off"]
NoAgg == [pc |-> "off"]

NoObs ==
    [expected |-> {}, saves |-> <<>>, ops |-> <<>>, generated |-> 0, at |-> 0,
     read |-> U32Zero, rivals |-> {}, free |-> FALSE, faulted |-> FALSE]

\* The collection may hold documents of earlier runs.  Such a document was
\* created with view_count 0 and has been looked up one call at a time since:
\* its history count starts equal to its view_count.  The counts drawn are a
\* fresh document and one that has reached u32::MAX.
PreCounts == {U32Zero, U32Max}

PreDocs == {UrlModel(s, OldUrl, v) : s \in Ids, v \in PreCounts}

InitStores ==
    {d \in UNION {[1..n -> PreDocs] : n \in 0..MaxInit} :
        \A i, j \in 1..Len(d) : d[i].short_id = d[j].short_id => i = j}

Init ==
    /\ db \in InitStores
    /\ index = FALSE
    /\ pc = [p \in Procs |-> "idle"]
    /\ op = [p \in Procs |-> "none"]
    /\ arg = [p \in Procs |-> ""]
    /\ url_obj = [p \in Procs |-> None]
    /\ iter = [p \in Procs |-> 0]
    /\ result = [p \in Procs |-> <<>>]
    /\ calls = 0
    /\ issued = {}
    /\ obs = [p \in Procs |-> NoObs]
    /\ lengthened = [i \in 1..Len(db) |-> db[i].view_count]
    /\ overlapped = [i \in 1..Len(db) |-> FALSE]
    /\ cli = NoCli
    /\ agg = NoAgg

\* ------------------------------------------------------------------ actions
\* setup_db: create the unique index; refused while duplicates are stored
Setup ==
    /\ \A i, j \in 1..Len(db) : db[i].short_id = db[j].short_id => i = j
    /\ index' = TRUE
    /\ UNCHANGED <<db, pc, op, arg, url_obj, iter, result, calls, issued, obs,
                   lengthened, overlapped, cli, agg>>

\* a caller may start a call once setup_db has run (lib.rs: "Call this
\* function atleast once before saving any URLs"; main.rs runs it first)
MayCall(p) == pc[p] = "idle" /\ index /\ calls < MaxCalls

\* create_url up to the loop: generate_id, then Url::new, which opens a
\* connection and panics when that fails
CreateUrlNew(p, full_url) ==
    /\ MayCall(p)
    /\ \E id \in generate_id(full_url), fault \in BOOLEAN :
        LET rivals == {q \in Procs \ {p} :
                          pc[q] = "create_save"
                          /\ get_short_id(Unwrap(url_obj[q])) = id}
        IN  /\ calls' = calls + 1
            /\ op' = [op EXCEPT ![p] = "create_url"]
            /\ arg' = [arg EXCEPT ![p] = full_url]
            /\ iter' = [iter EXCEPT ![p] = 1]
            /\ IF fault
               THEN /\ pc' = [pc EXCEPT ![p] = "panicked"]
                    /\ url_obj' = [url_obj EXCEPT ![p] = None]
                    /\ result' = [result EXCEPT ![p] = Panic]
                    /\ obs' = [obs EXCEPT ![p] =
                                [NoObs EXCEPT !.generated = 1, !.faulted = TRUE]]
               ELSE /\ url_obj' = [url_obj EXCEPT ![p] = Some(new(id, full_url, U32Zero))]
                    /\ pc' = [pc EXCEPT ![p] =
                                IF 1 < SAVE_RETRY_COUNT THEN "create_save" ELSE "idle"]
                    /\ result' = [result EXCEPT ![p] =
                                IF 1 < SAVE_RETRY_COUNT THEN Running ELSE ErrUniqueId]
                    /\ obs' = [q \in Procs |->
                                IF q = p
                                THEN [NoObs EXCEPT !.generated = 1, !.rivals = rivals,
                                                   !.free = Matches(db, id) = {}]
                                ELSE IF q \in rivals
                                THEN [obs[q] EXCEPT !.rivals = @ \cup {p}]
                                ELSE obs[q]]
    /\ UNCHANGED <<db, index, issued, lengthened, overlapped, cli, agg>>

\* one iteration of the loop of create_url
CreateUrlSave(p) ==
    /\ pc[p] = "create_save"
    /\ \E new_id \in generate_id(arg[p]), fault \in BOOLEAN :
        LET r == create_url_iteration(Unwrap(url_obj[p]), db, index,
                                      iter[p], new_id, fault)
        IN  /\ db' = r.db
            /\ url_obj' = [url_obj EXCEPT ![p] =
                            IF r.ret = Running THEN Some(r.url) ELSE None]
            /\ iter' = [iter EXCEPT ![p] = r.it]
            /\ result' = [result EXCEPT ![p] = r.ret]
            /\ pc' = [pc EXCEPT ![p] = IF r.ret = Running THEN "create_save" ELSE "idle"]
            /\ issued' = IF r.ret # Running /\ r.ret[1] = "Ok"
                         THEN issued \cup {<<r.ret[2], arg[p]>>} ELSE issued
            /\ obs' = [obs EXCEPT ![p].saves = Append(@, r.res),
                                  ![p].ops = Append(@, r.via),
                                  ![p].generated = IF r.res = "Ok" THEN @ ELSE @ + 1,
                                  ![p].faulted = @ \/ r.res = "BackendError"]
            /\ lengthened' = IF Len(r.db) > Len(db)
                             THEN Append(lengthened, U32Zero) ELSE lengthened
            /\ overlapped' = IF Len(r.db) > Len(db)
                             THEN Append(overlapped, FALSE) ELSE overlapped
    /\ UNCHANGED <<index, op, arg, calls, cli, agg>>

\* get_url up to the save
GetUrlFetch(p, short_id) ==
    /\ MayCall(p)
    /\ \E fault \in BOOLEAN, overflow_checks \in BOOLEAN :
        LET r == get_url_fetch(db, short_id, fault, overflow_checks)
        IN  /\ calls' = calls + 1
            /\ op' = [op EXCEPT ![p] = "get_url"]
            /\ arg' = [arg EXCEPT ![p] = short_id]
            /\ url_obj' = [url_obj EXCEPT ![p] = r.url]
            /\ result' = [result EXCEPT ![p] = r.ret]
            /\ pc' = [pc EXCEPT ![p] =
                        IF r.ret = Running THEN "get_save"
                        ELSE IF r.ret = Panic THEN "panicked" ELSE "idle"]
            /\ obs' = [obs EXCEPT ![p] =
                        [NoObs EXCEPT
                            !.expected = {u \in URLs : <<short_id, u>> \in issued},
                            !.at = r.at,
                            !.read = IF r.at = 0 THEN U32Zero ELSE db[r.at].view_count,
                            !.faulted = fault]]
            /\ overlapped' = [i \in 1..Len(db) |->
                                overlapped[i]
                                \/ (/\ r.ret = Running
                                    /\ i = r.at
                                    /\ \E q \in Procs \ {p} :
                                          pc[q] = "get_save" /\ obs[q].at = i)]
    /\ UNCHANGED <<db, index, iter, issued, lengthened, cli, agg>>

\* get_url from the save on
GetUrlSave(p) ==
    /\ pc[p] = "get_save"
    /\ \E fault \in BOOLEAN :
        LET r == get_url_save(Unwrap(url_obj[p]), db, index, fault)
        IN  /\ db' = r.db
            /\ url_obj' = [url_obj EXCEPT ![p] = None]
            /\ result' = [result EXCEPT ![p] = r.ret]
            /\ pc' = [pc EXCEPT ![p] = "idle"]
            /\ obs' = [obs EXCEPT ![p].saves = Append(@, r.res),
                                  ![p].ops = Append(@, r.via),
                                  ![p].faulted = @ \/ r.res = "BackendError"]
            /\ lengthened' = IF r.ret[1] = "OkSome"
                             THEN [lengthened EXCEPT ![obs[p].at] = Succ(@)]
                             ELSE lengthened
    /\ UNCHANGED <<index, op, arg, iter, calls, issued, overlapped, cli, agg>>

Next ==
    \/ Setup
    \/ \E p \in Procs, full_url \in URLs : CreateUrlNew(p, full_url)
    \/ \E p \in Procs : CreateUrlSave(p)
    \/ \E p \in Procs, short_id \in Ids : GetUrlFetch(p, short_id)
    \/ \E p \in Procs : GetUrlSave(p)

Spec == Init /\ [][Next]_vars

\* ------------------------------------------------------------------ command line
SHORTEN_COMMAND == "shorten"
LENGTHEN_COMMAND == "lengthen"

\* the characters of the strings given on the command line
Spelling ==
    "https://a.example" :> <<"h", "t", "t", "p", "s", ":", "/", "/", "a", ".", "e", "x", "a", "m", "p", "l", "e">> @@
       "https://b.example" :> <<"h", "t", "t", "p", "s", ":", "/", "/", "b", ".", "e", "x", "a", "m", "p", "l", "e">> @@
       "http://c.example" :> <<"h", "t", "t", "p", ":", "/", "/", "c", ".", "e", "x", "a", "m", "p", "l", "e">> @@
       "https;//example.com" :> <<"h", "t", "t", "p", "s", ";", "/", "/", "e", "x", "a", "m", "p", "l", "e", ".", "c", "o", "m">> @@
       "http://a b" :> <<"h", "t", "t", "p", ":", "/", "/", "a", " ", "b">> @@
       "ftp://a.example" :> <<"f", "t", "p", ":", "/", "/", "a", ".", "e", "x", "a", "m", "p", "l", "e">> @@
       "https://" :> <<"h", "t", "t", "p", "s", ":", "/", "/">> @@
       "X" :> <<"X">> @@
       "Y" :> <<"Y">>

ArgStrings == DOMAIN Spelling

HasPrefix(c, pre) == Len(c) >= Len(pre) /\ SubSeq(c, 1, Len(pre)) = pre

\* the regular expression ^https?://[^ "]+$
is_valid_url(test_string) ==
    LET c == Spelling[test_string]
    IN  \E scheme \in {<<"h", "t", "t", "p">>, <<"h", "t", "t", "p", "s">>} :
            LET head == scheme \o <<":", "/", "/">>
                rest == SubSeq(c, Len(head) + 1, Len(c))
            IN  /\ HasPrefix(c, head)
                /\ Len(rest) >= 1
                /\ \A i \in 1..Len(rest) : rest[i] \notin {" ", "\""}

\* ShortyArgs::build on the argument vector, the executable's name first
build(argv) ==
    IF Len(argv) < 2 THEN <<"Err", "command positional argument was not found">>
    ELSE IF Len(argv) < 3
    THEN <<"Err", "command_arg positional argument was not found">>
    ELSE IF argv[2] = LENGTHEN_COMMAND THEN <<"Ok", <<"Lengthen", argv[3]>>>>
    ELSE IF argv[2] = SHORTEN_COMMAND
    THEN IF is_valid_url(argv[3])
         THEN <<"Ok", <<"Shorten", argv[3]>>>>
         ELSE <<"Err", "invalid URL format">>
    ELSE <<"Err", "invalid command">>

Commands == {SHORTEN_COMMAND, LENGTHEN_COMMAND, "expand"}

Argvs ==
    {<<"shorty">>}
    \cup {<<"shorty", c>> : c \in Commands}
    \cup {<<"shorty", c, a>> : c \in Commands, a \in ArgStrings}

Main == "p1"

CliStart(argv) ==
    [pc |-> "setup", args |-> argv, command |-> None, stdout |-> "",
     stderr |-> "", exit |-> -1, backend |-> <<>>]

CliInit ==
    /\ db \in InitStores
    /\ index \in BOOLEAN
    /\ pc = [p \in Procs |-> "idle"]
    /\ op = [p \in Procs |-> "none"]
    /\ arg = [p \in Procs |-> ""]
    /\ url_obj = [p \in Procs |-> None]
    /\ iter = [p \in Procs |-> 0]
    /\ result = [p \in Procs |-> <<>>]
    /\ calls = 0
    /\ issued = {}
    /\ obs = [p \in Procs |-> NoObs]
    /\ lengthened = [i \in 1..Len(db) |-> db[i].view_count]
    /\ overlapped = [i \in 1..Len(db) |-> FALSE]
    /\ cli \in {CliStart(argv) : argv \in Argvs}
    /\ agg = NoAgg

CliExit(code, out, err) ==
    cli' = [cli EXCEPT !.pc = "exited", !.exit = code, !.stdout = out, !.stderr = err]

\* main: setup_db comes first
MainSetup ==
    /\ cli.pc = "setup"
    /\ \E fault \in BOOLEAN :
        IF fault
        THEN /\ cli' = [cli EXCEPT !.pc = "exited", !.exit = 1,
                                   !.stderr = "setup_db error",
                                   !.backend = Append(@, "setup_db")]
             /\ UNCHANGED index
        ELSE /\ cli' = [cli EXCEPT !.pc = "build",
                                   !.backend = Append(@, "setup_db")]
             /\ index' = TRUE
    /\ UNCHANGED <<db, pc, op, arg, url_obj, iter, result, calls, issued, obs,
                   lengthened, overlapped, agg>>

\* main: ShortyArgs::build(env::args())
MainBuild ==
    /\ cli.pc = "build"
    /\ LET r == build(cli.args)
       IN  IF r[1] = "Err"
           THEN CliExit(1, "", r[2])
           ELSE cli' = [cli EXCEPT !.pc = "dispatch", !.command = Some(r[2])]
    /\ UNCHANGED <<db, index, pc, op, arg, url_obj, iter, result, calls, issued,
                   obs, lengthened, overlapped, agg>>

Dispatched(command) ==
    cli.pc = "dispatch" /\ Unwrap(cli.command)[1] = command

\* handle_shorten_url: the create_url call
MainShortenNew ==
    /\ Dispatched("Shorten") /\ calls = 0
    /\ CreateUrlNew(Main, Unwrap(cli.command)[2])

MainShortenSave == Dispatched("Shorten") /\ CreateUrlSave(Main)

\* handle_shorten_url: after the call
MainShortenExit ==
    /\ Dispatched("Shorten") /\ calls = 1 /\ pc[Main] # "create_save"
    /\ IF pc[Main] = "panicked" THEN CliExit(101, "", "panic")
       ELSE IF result[Main][1] = "Ok" THEN CliExit(0, result[Main][2], "")
       ELSE CliExit(1, "", result[Main][2])
    /\ UNCHANGED <<db, index, pc, op, arg, url_obj, iter, result, calls, issued,
                   obs, lengthened, overlapped, agg>>

\* handle_lengthen_short_id: the get_url call
MainLengthenFetch ==
    /\ Dispatched("Lengthen") /\ calls = 0
    /\ GetUrlFetch(Main, Unwrap(cli.command)[2])

MainLengthenSave == Dispatched("Lengthen") /\ GetUrlSave(Main)

\* handle_lengthen_short_id: after the call
MainLengthenExit ==
    /\ Dispatched("Lengthen") /\ calls = 1 /\ pc[Main] # "get_save"
    /\ IF pc[Main] = "panicked" THEN CliExit(101, "", "panic")
       ELSE IF result[Main][1] = "OkSome" THEN CliExit(0, result[Main][2], "")
       ELSE IF result[Main][1] = "OkNone" THEN CliExit(1, "", "not found")
       ELSE CliExit(1, "", result[Main][2])
    /\ UNCHANGED <<db, index, pc, op, arg, url_obj, iter, result, calls, issued,
                   obs, lengthened, overlapped, agg>>

CliNext ==
    \/ MainSetup
    \/ MainBuild
    \/ MainShortenNew
    \/ MainShortenSave
    \/ MainShortenExit
    \/ MainLengthenFetch
    \/ MainLengthenSave
    \/ MainLengthenExit

CliSpec == CliInit /\ [][CliNext]_vars

\* ------------------------------------------------------------------ one Url
\* A single Url is constructed (Url::new or Url::fetch_url) and its methods
\* are then called in any order; agg.log is the history of those calls and
\* agg.before the Url as it was before the last of them.
MaxAggOps == 4

Entry(call, a, res, via, matched) ==
    [op |-> call, arg |-> a, res |-> res, via |-> via, matched |-> matched]

AggStart == [pc |-> "live", url |-> None, before |-> None, log |-> <<>>]

AggInit ==
    /\ db \in InitStores
    /\ index = TRUE
    /\ pc = [p \in Procs |-> "idle"]
    /\ op = [p \in Procs |-> "none"]
    /\ arg = [p \in Procs |-> ""]
    /\ url_obj = [p \in Procs |-> None]
    /\ iter = [p \in Procs |-> 0]
    /\ result = [p \in Procs |-> <<>>]
    /\ calls = 0
    /\ issued = {}
    /\ obs = [p \in Procs |-> NoObs]
    /\ lengthened = [i \in 1..Len(db) |-> db[i].view_count]
    /\ overlapped = [i \in 1..Len(db) |-> FALSE]
    /\ cli = NoCli
    /\ agg = AggStart

AggMay == agg.pc = "live" /\ Len(agg.log) < MaxAggOps

AggDid(url, entry) ==
    agg' = [agg EXCEPT !.url = url, !.before = agg.url, !.log = Append(@, entry)]

AggIdle ==
    UNCHANGED <<index, pc, op, arg, url_obj, iter, result, calls, issued, obs,
                overlapped, cli>>

\* Url::new
AggNew(short_id, full_url) ==
    /\ AggMay /\ agg.url = None
    /\ AggDid(Some(new(short_id, full_url, U32Zero)),
              Entry("new", short_id, "Ok", "none", FALSE))
    /\ UNCHANGED <<db, lengthened>>
    /\ AggIdle

\* Url::fetch_url
AggFetch(short_id) ==
    /\ AggMay /\ agg.url = None
    /\ \E fault \in BOOLEAN :
        LET r == fetch_url(db, short_id, fault)
        IN  AggDid(IF r[1] = "Ok" THEN r[2] ELSE None,
                   Entry("fetch_url", short_id, r[1], "find_one", FALSE))
    /\ UNCHANGED <<db, lengthened>>
    /\ AggIdle

\* Url::increment_view_count; its view_count + 1 panics at u32::MAX in a
\* build with overflow checks
AggIncrement ==
    /\ AggMay /\ IsSome(agg.url)
    /\ \E overflow_checks \in BOOLEAN :
        IF overflow_checks /\ Unwrap(agg.url).model.view_count = U32Max
        THEN agg' = [agg EXCEPT !.pc = "panicked"]
        ELSE AggDid(Some(increment_view_count(Unwrap(agg.url))),
                    Entry("increment_view_count", "", "Ok", "none", FALSE))
    /\ UNCHANGED <<db, lengthened>>
    /\ AggIdle

\* Url::update_short_id
AggUpdateShortId(new_id) ==
    /\ AggMay /\ IsSome(agg.url)
    /\ AggDid(Some(update_short_id(Unwrap(agg.url), new_id)),
              Entry("update_short_id", new_id, "Ok", "none", FALSE))
    /\ UNCHANGED <<db, lengthened>>
    /\ AggIdle

\* Url::save
AggSave ==
    /\ AggMay /\ IsSome(agg.url)
    /\ \E fault \in BOOLEAN :
        LET r == save(Unwrap(agg.url), db, index, fault)
        IN  /\ AggDid(Some(r.url), Entry("save", "", r.res, r.via, r.matched))
            /\ db' = r.db
            /\ lengthened' = IF Len(r.db) > Len(db)
                             THEN Append(lengthened, U32Zero) ELSE lengthened
    /\ UNCHANGED <<index, pc, op, arg, url_obj, iter, result, calls, issued, obs, cli>>
    /\ overlapped' = [i \in 1..Len(db') |-> FALSE]

AggNext ==
    \/ \E short_id \in Ids, full_url \in URLs : AggNew(short_id, full_url)
    \/ \E short_id \in Ids : AggFetch(short_id)
    \/ AggIncrement
    \/ \E new_id \in Ids : AggUpdateShortId(new_id)
    \/ AggSave

AggSpec == AggInit /\ [][AggNext]_vars

\* ------------------------------------------------------------------ claims
Kind(r) == IF r = <<>> THEN "Running" ELSE r[1]

Returned(p, call) == pc[p] = "idle" /\ op[p] = call /\ result[p] # Running

\* C1: a get_url(s) that starts after create_url(u) returned Ok(s), and whose
\* round trips do not fail, returns Ok(Some(u)), whatever else is stored.
C1_RoundTrip ==
    \A p \in Procs :
        (Returned(p, "get_url") /\ obs[p].expected # {} /\ ~obs[p].faulted)
            => \A u \in obs[p].expected : result[p] = <<"OkSome", u>>

C1_Witness ==
    \E p \in Procs :
        /\ Returned(p, "get_url")
        /\ Len(db) >= 2
        /\ \E u \in obs[p].expected : result[p] = <<"OkSome", u>>

\* C2: no two stored documents share a short_id, create_url never returns one
\* short_id for two different URLs, and of two create_url calls that run at
\* the same time with the same free candidate, exactly one insert succeeds.
C2_Uniqueness ==
    /\ \A i, j \in 1..Len(db) : db[i].short_id = db[j].short_id => i = j
    /\ \A a, b \in issued : a[1] = b[1] => a[2] = b[2]
    /\ \A p, q \in Procs :
        (/\ Returned(p, "create_url") /\ Returned(q, "create_url")
         /\ obs[p].rivals = {q} /\ obs[q].rivals = {p}
         /\ obs[p].free /\ obs[q].free
         /\ ~obs[p].faulted /\ ~obs[q].faulted)
            => (Kind(result[p]) = "Ok") # (Kind(result[q]) = "Ok")

C2_Witness ==
    \E p, q \in Procs :
        /\ Returned(p, "create_url") /\ Returned(q, "create_url")
        /\ obs[p].rivals = {q} /\ obs[q].rivals = {p}
        /\ obs[p].free /\ obs[q].free
        /\ Kind(result[p]) = "Ok" /\ obs[q].saves = <<"DuplicateKey">>

\* C3: a create_url whose first save fails with a duplicate key saves a second
\* time, under the regenerated short_id, before it returns.
C3_CollisionRetry ==
    \A p \in Procs :
        (Returned(p, "create_url") /\ obs[p].saves # <<>>
         /\ obs[p].saves[1] = "DuplicateKey")
            => Len(obs[p].saves) = 2

\* C4: no step lowers the view_count of a stored document (stated for the
\* documents below u32::MAX, where view_count + 1 does not wrap).
C4_ViewCountNeverDecreases ==
    [][\A i \in 1..Len(db) :
          db[i].view_count # U32Max => Leq(db[i].view_count, db'[i].view_count)]_vars

\* C5: a document whose get_url calls never overlapped has a view_count equal
\* to the number of get_url calls that returned its URL.
C5_SequentialCount ==
    \A i \in 1..Len(db) : ~overlapped[i] => db[i].view_count = lengthened[i]

\* C6: the view_count a get_url call saves is the one it read plus one,
\* whatever is stored when it saves (last write wins); the witness is two
\* overlapping calls that read the same count v and leave v + 1.
C6_LastWriteWins ==
    [][\A p \in Procs :
          (pc[p] = "get_save" /\ pc'[p] = "idle" /\ Kind(result'[p]) = "OkSome")
              => db'[obs[p].at].view_count = AddOne(obs[p].read)]_vars

C6_LostUpdate ==
    \E p, q \in Procs :
        /\ p # q
        /\ Returned(p, "get_url") /\ Returned(q, "get_url")
        /\ Kind(result[p]) = "OkSome" /\ result[q] = result[p]
        /\ obs[p].saves = <<"Ok">> /\ obs[q].saves = <<"Ok">>
        /\ obs[p].at = obs[q].at /\ obs[p].read = obs[q].read
        /\ overlapped[obs[p].at]
        /\ db[obs[p].at].view_count = AddOne(obs[p].read)

\* C7: a create_url call one of whose saves failed with a backend error other
\* than a duplicate key does not answer with the allocation failure, and
\* generates no second identifier.
C7_ErrorClassification ==
    \A p \in Procs :
        (Returned(p, "create_url")
         /\ \E k \in 1..Len(obs[p].saves) : obs[p].saves[k] = "BackendError")
            => result[p] # ErrUniqueId /\ obs[p].generated = 1

\* C8: a get_url call whose find_one answers that no document matches returns
\* Ok(None) and issues no write.
C8_NotFound ==
    \A p \in Procs :
        (Returned(p, "get_url") /\ obs[p].at = 0 /\ ~obs[p].faulted)
            => result[p] = <<"OkNone">> /\ obs[p].saves = <<>>

C8_Witness ==
    \E p \in Procs :
        /\ Returned(p, "get_url") /\ obs[p].at = 0 /\ ~obs[p].faulted
        /\ result[p] = <<"OkNone">>
        /\ Matches(db, arg[p]) = {}

\* C9: a get_url call returns a URL only after its save succeeded; when the
\* save fails it returns the view count error.
C9_SaveBeforeUrl ==
    \A p \in Procs :
        Returned(p, "get_url") =>
            /\ Kind(result[p]) = "OkSome" => obs[p].saves = <<"Ok">>
            /\ (obs[p].saves # <<>> /\ obs[p].saves[1] # "Ok")
                  => result[p] = ErrViewCount

C9_Witness ==
    \E p \in Procs :
        /\ Returned(p, "get_url") /\ obs[p].at # 0
        /\ obs[p].saves = <<"BackendError">>
        /\ result[p] = ErrViewCount

\* C10: no step changes the full_url of a stored document, and none removes
\* a document.
C10_FullUrlImmutable ==
    [][/\ Len(db') >= Len(db)
       /\ \A i \in 1..Len(db) : db'[i].full_url = db[i].full_url]_vars

C10_Witness ==
    \E p \in Procs :
        /\ Returned(p, "get_url") /\ obs[p].saves = <<"Ok">>
        /\ db[obs[p].at].view_count # obs[p].read
        /\ db[obs[p].at].full_url = result[p][2]

\* C11: a run that ends with the validation error of an invalid URL has
\* issued no backend operation, index setup included.
C11_ValidationBeforeBackend ==
    (cli.pc = "exited" /\ cli.stderr = "invalid URL format") => cli.backend = <<>>

\* the last call made on the Url, and the Url before and after it
Last == agg.log[Len(agg.log)]
Called(call) == agg.pc = "live" /\ agg.log # <<>> /\ Last.op = call
Before == Unwrap(agg.before)
After == Unwrap(agg.url)

\* C12: a save that follows a successful inserting save issues no insert.
C12_SaveNewPersists ==
    \A k \in 1..(Len(agg.log) - 1) :
        (/\ agg.log[k].op = "save" /\ agg.log[k].via = "insert_one"
         /\ agg.log[k].res = "Ok" /\ agg.log[k + 1].op = "save")
            => agg.log[k + 1].via # "insert_one"

\* C13: after a save with a pending changeset has failed, the Url holds the
\* same pending changeset and is in the same New/Persisted state.
C13_FailedSaveKeepsChangeset ==
    (Called("save") /\ Last.res # "Ok" /\ IsSome(Before.changeset))
        => /\ After.changeset = Before.changeset
           /\ After.is_fetched_from_db = Before.is_fetched_from_db

\* C14: after a save has applied the changeset of a Url fetched from the
\* store, the fields of the Url equal the values written.
C14_ModelMirrorsChangeset ==
    (/\ Called("save") /\ Last.res = "Ok" /\ Last.via = "update_one"
     /\ Last.matched /\ Before.is_fetched_from_db)
        => \A f \in {"short_id", "view_count"} :
              IsSome(Unwrap(Before.changeset)[f])
                  => After.model[f] = Unwrap(Unwrap(Before.changeset)[f])

\* C15: right after update_short_id(new_id), get_short_id() is new_id.
C15_GetShortIdReflectsUpdate ==
    Called("update_short_id") => get_short_id(After) = Last.arg

\* C16: a save with a pending changeset that matches no stored document does
\* not report success.
C16_UpdateOfMissingFails ==
    (Called("save") /\ Last.via = "update_one" /\ ~Last.matched)
        => Last.res # "Ok"

\* C17: after one or more increment_view_count calls in a row the pending
\* view_count is the view_count of the Url plus one (in u32).
C17_IncrementDoesNotStack ==
    Called("increment_view_count")
        => /\ IsSome(After.changeset)
           /\ Unwrap(After.changeset).view_count = Some(AddOne(After.model.view_count))

C17_Witness ==
    /\ Called("increment_view_count")
    /\ Len(agg.log) >= 3
    /\ agg.log[Len(agg.log) - 1].op = "increment_view_count"
    /\ Unwrap(After.changeset).view_count = Some(AddOne(After.model.view_count))

\* C18: update_short_id(new_id) sets the pending short_id to new_id and leaves
\* the other pending fields as they were, None when nothing was pending.
C18_UpdateShortIdMerges ==
    Called("update_short_id")
        => /\ IsSome(After.changeset)
           /\ Unwrap(After.changeset).short_id = Some(Last.arg)
           /\ \A f \in {"full_url", "view_count"} :
                Unwrap(After.changeset)[f] =
                    IF IsSome(Before.changeset)
                    THEN Unwrap(Before.changeset)[f] ELSE None
           /\ After.model = Before.model

C18_Witness ==
    /\ Called("update_short_id")
    /\ IsSome(Before.changeset)
    /\ IsSome(Unwrap(Before.changeset).view_count)
    /\ Unwrap(After.changeset).view_count = Unwrap(Before.changeset).view_count
    /\ Unwrap(After.changeset).short_id = Some(Last.arg)

\* C19: a create_url call makes at most SAVE_RETRY_COUNT saves (the first
\* attempt and the retry budget) whatever the backend answers: while it runs
\* it holds the Url its next save needs and each save moves the loop variable
\* towards SAVE_RETRY_COUNT, so it returns; once it has returned it holds no
\* Url to save from.
C19_CreateUrlTerminates ==
    \A p \in Procs :
        op[p] = "create_url" =>
            /\ Len(obs[p].saves) <= SAVE_RETRY_COUNT
            /\ pc[p] = "create_save" =>
                  /\ iter[p] < SAVE_RETRY_COUNT
                  /\ Len(obs[p].saves) = iter[p] - 1
                  /\ IsSome(url_obj[p])
            /\ pc[p] # "create_save" => url_obj[p] = None

C19_Witness ==
    \E p \in Procs :
        /\ Returned(p, "create_url")
        /\ obs[p].saves = <<"BackendError">>
        /\ url_obj[p] = None

\* C20: a step of a get_url call leaves the number of stored documents and
\* the short_id and full_url of each of them as they were, changes no
\* document but the one it fetched, and every write it has issued is an
\* update_one.
C20_GetUrlWritesPartially ==
    [][\A p \in Procs :
          ((\E short_id \in Ids : GetUrlFetch(p, short_id)) \/ GetUrlSave(p)) =>
              /\ Len(db') = Len(db)
              /\ \A i \in 1..Len(db) :
                    /\ db'[i].short_id = db[i].short_id
                    /\ db'[i].full_url = db[i].full_url
                    /\ db'[i] # db[i] => (pc[p] = "get_save" /\ i = obs[p].at)
              /\ \A k \in 1..Len(obs'[p].ops) : obs'[p].ops[k] = "update_one"]_vars

C20_Witness ==
    \E p \in Procs :
        /\ Returned(p, "get_url") /\ Kind(result[p]) = "OkSome"
        /\ obs[p].ops = <<"update_one">>
        /\ db[obs[p].at].view_count = AddOne(obs[p].read)
        /\ db[obs[p].at].short_id = arg[p]

\* C21: a step of a create_url call leaves every document that was stored
\* before it as it was (short_id, full_url and view_count), also when the
\* candidate short_id of the call is the short_id of one of them and whether
\* the call goes on to succeed or to fail.
C21_CollisionLeavesRecord ==
    [][\A p \in Procs :
          ((\E full_url \in URLs : CreateUrlNew(p, full_url)) \/ CreateUrlSave(p)) =>
              /\ Len(db') >= Len(db)
              /\ \A i \in 1..Len(db) : db'[i] = db[i]]_vars

C21_Witness ==
    \E p \in Procs :
        /\ Returned(p, "create_url")
        /\ ~obs[p].free
        /\ obs[p].saves = <<"DuplicateKey">>
        /\ obs[p].ops = <<"insert_one">>
        /\ result[p] = ErrUniqueId
        /\ \E i \in 1..Len(db) : db[i].full_url # arg[p]

====
